---- MODULE Spec2Model ----
(***************************************************************************)
(* Model of the hand tracker of the pizza hygiene monitor                  *)
(* (detection_service/detector.py): the geometry helpers, HandTracker and  *)
(* the stream of frame messages that drives HandTracker.update.            *)
(*                                                                         *)
(* Boxes are tuples <<x1, y1, x2, y2>> of integers.  The float constants   *)
(* of the source (0.2, 0.5, 0.4) are kept as exact fractions <<num, den>>  *)
(* and every comparison is cross-multiplied, so no rounding is introduced. *)
(***************************************************************************)
EXTENDS Integers, Sequences, FiniteSets, TLC

\* ---------------------------------------------------------------- bounds
\* Spec: frame numbers delivered to the tracker are 0 .. MaxFrame
MaxFrame == 15
\* number of frames of one run that carry a scooper detection
MaxScooperFrames == 1
\* SpecReplay: frame numbers are 0 .. MaxReplayFrame, and at most
\* MaxRedeliver deliveries repeat the message delivered before them
MaxReplayFrame == 9
MaxRedeliver == 2
\* SpecLost: hands are seen in frames 0 .. MaxActiveFrame only, and the
\* stream goes on without them up to frame MaxLostFrame
MaxActiveFrame == 4
MaxLostFrame == 126
\* SpecLost: hands come back in the frames MaxLostFrame + 1 ..
\* MaxLostFrame + MaxReturnFrames
MaxReturnFrames == 2
\* SpecTwoHands: two hands move freely in frames 0 .. MaxTwoHandFrame, the
\* stream ends with frame MaxSettleFrame
MaxTwoHandFrame == 3
MaxSettleFrame == 12
\* SpecPipeline: frame numbers are 0 .. MaxPipelineFrame
MaxPipelineFrame == 12
\* SpecSaves: frame numbers are 0 .. MaxSaveFrame
MaxSaveFrame == 12
\* SpecFaults: frame numbers are 0 .. MaxFaultFrame
MaxFaultFrame == 5
\* SpecRois: a configuration file lists at most MaxConfigRegions regions
MaxConfigRegions == 2
\* SpecIou: box coordinates are 0 .. MaxCoord
MaxCoord == 3
\* SpecReader: the video has at most MaxVideoFrames frames
MaxVideoFrames == 6

\* --------------------------------------------------------- configuration
IOU_THRESHOLD == <<1, 5>>
HAND_TIMEOUT_FRAMES == 60
SCOOPER_MEMORY_FRAMES == 15
VIOLATION_DELAY_FRAMES == 10
NEAR_PIZZA_MARGIN == <<1, 2>>
SCOOPER_MARGIN == <<2, 5>>

\* the ordered region list of the configuration: the region of the default
\* configuration first, then a second one that overlaps it, so that a centre
\* can lie in both
rois == << [name |-> "Cheese", x |-> 454, y |-> 350, w |-> 64, h |-> 37],
           [name |-> "Sauce", x |-> 480, y |-> 352, w |-> 60, h |-> 40] >>

\* ------------------------------------------------------- detector output
\* hand boxes of one hand that moves up the frame: centre inside the region,
\* centre just outside it, centre next to the pizza; each overlaps the others
\* by more than the matching threshold
HandInRoi == <<455, 310, 515, 430>>
HandOutside == <<455, 286, 515, 406>>
HandAtPizza == <<455, 262, 515, 382>>
PizzaBox == <<440, 240, 530, 300>>
\* a scooper within margin 0.4 of the pizza, and one within 0.5 but not 0.4
ScooperNear == <<470, 290, 500, 320>>
ScooperFar == <<470, 312, 500, 342>>

\* a second hand next to the first: its boxes overlap the boxes of the first
\* hand at the same height by more than the matching threshold, its centre
\* in the regions lies in the second region only
Hand2InRoi == <<491, 310, 551, 430>>
Hand2AtPizza == <<491, 262, 551, 382>>

HandBoxLists == { <<>>, <<HandInRoi>>, <<HandOutside>>, <<HandAtPizza>> }
\* frames that show up to two hands, in either order of detection
\* frames of one hand or of two hands moving together
PipelineHandLists ==
    { <<>>, <<HandAtPizza>>, <<HandInRoi, Hand2InRoi>>, <<HandAtPizza, Hand2AtPizza>> }
TwoHandBoxLists ==
    { <<>>, <<HandInRoi>>, <<Hand2InRoi>>, <<HandAtPizza>>, <<Hand2AtPizza>>,
      <<HandInRoi, Hand2InRoi>>, <<Hand2InRoi, HandInRoi>>,
      <<HandAtPizza, Hand2AtPizza>>, <<Hand2AtPizza, HandAtPizza>>,
      <<HandInRoi, Hand2AtPizza>>, <<HandAtPizza, Hand2InRoi>> }
ScooperBoxLists == { <<>>, <<ScooperNear>>, <<ScooperFar>> }
\* frames with no scooper or one next to the pizza
NearScooperLists == { <<>>, <<ScooperNear>> }
PizzaBoxLists == { <<PizzaBox>> }

\* ------------------------------------------------------------- geometry
Max(a, b) == IF a >= b THEN a ELSE b
Min(a, b) == IF a <= b THEN a ELSE b

\* a / b > c / d for fractions with positive denominators
FracGt(p, q) == p[1] * q[2] > q[1] * p[2]

\* mutant: the union area is not guarded; a zero denominator is the
\* division that raises
box_iou_NoUnionGuard(box1, box2) ==
    LET xi1 == Max(box1[1], box2[1])
        yi1 == Max(box1[2], box2[2])
        xi2 == Min(box1[3], box2[3])
        yi2 == Min(box1[4], box2[4])
        inter_area == Max(0, xi2 - xi1) * Max(0, yi2 - yi1)
        box1_area == (box1[3] - box1[1]) * (box1[4] - box1[2])
        box2_area == (box2[3] - box2[1]) * (box2[4] - box2[2])
    IN  <<inter_area, box1_area + box2_area - inter_area>>

\* intersection over union as a fraction <<num, den>>; 0 is <<0, 1>>
box_iou(box1, box2) ==
    LET xi1 == Max(box1[1], box2[1])
        yi1 == Max(box1[2], box2[2])
        xi2 == Min(box1[3], box2[3])
        yi2 == Min(box1[4], box2[4])
        inter_area == Max(0, xi2 - xi1) * Max(0, yi2 - yi1)
        box1_area == (box1[3] - box1[1]) * (box1[4] - box1[2])
        box2_area == (box2[3] - box2[1]) * (box2[4] - box2[2])
        union_area == box1_area + box2_area - inter_area
    IN  IF union_area > 0 THEN <<inter_area, union_area>> ELSE <<0, 1>>

\* integer midpoint, rounded towards minus infinity as Python's //
box_center(box) == << (box[1] + box[3]) \div 2, (box[2] + box[4]) \div 2 >>

is_in_roi(box, roi) ==
    LET c == box_center(box)
    IN  /\ roi.x <= c[1] /\ c[1] <= roi.x + roi.w
        /\ roi.y <= c[2] /\ c[2] <= roi.y + roi.h

\* the point c lies in box expanded by margin (a fraction) on each side
InExpanded(c, box, margin) ==
    LET pw == box[3] - box[1]
        ph == box[4] - box[2]
        n == margin[1]
        d == margin[2]
    IN  /\ box[1] * d - pw * n <= c[1] * d
        /\ c[1] * d <= box[3] * d + pw * n
        /\ box[2] * d - ph * n <= c[2] * d
        /\ c[2] * d <= box[4] * d + ph * n

is_near_pizza(hand_box, pizza_box) ==
    InExpanded(box_center(hand_box), pizza_box, NEAR_PIZZA_MARGIN)

is_scooper_at_pizza(scooper_boxes, pizza_box) ==
    \E i \in 1..Len(scooper_boxes) :
        InExpanded(box_center(scooper_boxes[i]), pizza_box, SCOOPER_MARGIN)

\* ------------------------------------------------------------ HandTracker
VARIABLES
    next_id,             \* HandTracker.next_id
    hands,               \* HandTracker.hands: id -> [box, state, frames_since_update, roi_name]
    violations,          \* HandTracker.violations: list of [frame, hand_id, roi_name]
    scooper_history,     \* HandTracker.scooper_history: list of scooper box lists
    pending_violations,  \* HandTracker.pending_violations, a dict kept here as the
                         \* list of its entries in insertion order
    frame_msg,           \* the message of the last process_frame call, with
                         \* the boxes the detector found in its frame
    new_violations,      \* the list returned by the last update
    matched_hands,       \* the set matched_hands of the last update
    lost_hands,          \* the hands the last update evicted (its list lost_hands)
    redelivered,         \* redeliveries so far
    scooper_frames,      \* frames so far that carried a scooper detection
    published,           \* what the last process_frame call published to
                         \* results_queue: no message or one
    raised,              \* the call that raised into the except branch of the
                         \* last process_frame call, "none" when none did
    decoded,             \* the last process_frame call could decode its frame
    acked,               \* the last process_frame call acknowledged its message
    channel_open,        \* the channel ch was open when the last process_frame
                         \* call called basic_ack on it; basic_ack raises on a
                         \* closed channel
    save_calls,          \* the records the last process_frame call passed to
                         \* save_violation, in order
    stored,              \* the rows of the table violations
    args,                \* the arguments of a call of load_rois or box_iou
                         \* made on its own, or the name of the connection
                         \* function whose retry loop runs
    returned,            \* the outcome of that call
    frame_number,        \* FrameReader.read_and_stream: its local frame_number
    frames_read,         \* the frames cap.read() has returned so far
    frame_queue,         \* the messages published to frame_queue, in order,
                         \* each with the index of its frame in the video
    total_frames,        \* the number of frames cap.read() can return
    reader_pc,           \* where read_and_stream is: "idle", "reading", "finished"
    max_retries,         \* connect_rabbitmq / connect_postgres: its max_retries
    attempt,             \* the loop variable attempt; max_retries when the
                         \* range is exhausted
    tried,               \* connection attempts made so far
    sleeps,              \* calls of time.sleep so far
    retry_pc,            \* where the loop is: "idle", "try", "except", "returned"
    connected            \* the value returned, once retry_pc is "returned"

vars == <<next_id, hands, violations, scooper_history, pending_violations,
          frame_msg, new_violations, matched_hands, lost_hands, redelivered,
          scooper_frames, published, raised, decoded, acked, save_calls,
          stored, args, returned, channel_open,
          frame_number, frames_read, frame_queue, total_frames, reader_pc,
          max_retries, attempt, tried, sleeps, retry_pc, connected>>

\* the state of the frame reader and of a connection retry loop
reader_vars == <<frame_number, frames_read, frame_queue, total_frames, reader_pc>>
retry_vars == <<max_retries, attempt, tried, sleeps, retry_pc, connected>>

SetMin(S) == CHOOSE m \in S : \A o \in S : m <= o

\* the keys of the pending_violations dict
PendingIds(pending) == { pending[i].hand_id : i \in 1..Len(pending) }

\* the entry of key id in the pending_violations dict
PendingOf(pending, id) ==
    pending[CHOOSE i \in 1..Len(pending) : pending[i].hand_id = id]

\* mutant: the entry is added without looking for the key
PendingPut_AlwaysAppends(pending, entry) == Append(pending, entry)

\* pending_violations[hand_id] = entry: an existing key keeps its position
\* and gets the new value, a new key goes to the end
PendingPut(pending, entry) ==
    IF entry.hand_id \in PendingIds(pending)
    THEN [i \in 1..Len(pending) |->
             IF pending[i].hand_id = entry.hand_id THEN entry ELSE pending[i]]
    ELSE Append(pending, entry)

\* del pending_violations[hand_id] for every hand_id in ids
PendingDel(pending, ids) == SelectSeq(pending, LAMBDA e : e.hand_id \notin ids)

\* mutant: beyond the window the newest entry is the one dropped
AppendScooperHistory_DropsNewest(history, scooper_boxes) ==
    IF Len(history) >= SCOOPER_MEMORY_FRAMES THEN history
    ELSE Append(history, scooper_boxes)

\* scooper_history.append(scooper_boxes), oldest entry dropped beyond the window
AppendScooperHistory(history, scooper_boxes) ==
    LET appended == Append(history, scooper_boxes)
    IN  IF Len(appended) > SCOOPER_MEMORY_FRAMES THEN Tail(appended) ELSE appended

\* mutant: only the scooper boxes of the current frame are consulted
all_recent_scoopers_CurrentFrameOnly(history) ==
    IF history = <<>> THEN <<>> ELSE history[Len(history)]

RECURSIVE all_recent_scoopers(_)
all_recent_scoopers(history) ==
    IF history = <<>> THEN <<>>
    ELSE Head(history) \o all_recent_scoopers(Tail(history))

\* mutant: the last region that contains the box centre wins
FirstRoiIndex_LastRegion(hand_box) ==
    LET inside == { i \in 1..Len(rois) : is_in_roi(hand_box, rois[i]) }
    IN  IF inside = {} THEN 0 ELSE CHOOSE m \in inside : \A o \in inside : m >= o

\* index of the first region that contains the box centre, 0 when none does
FirstRoiIndex(hand_box) ==
    LET inside == { i \in 1..Len(rois) : is_in_roi(hand_box, rois[i]) }
    IN  IF inside = {} THEN 0 ELSE SetMin(inside)

\* index of the first pizza box the hand is near, 0 when none
FirstNearPizza(hand_box, pizza_boxes) ==
    LET near == { j \in 1..Len(pizza_boxes) : is_near_pizza(hand_box, pizza_boxes[j]) }
    IN  IF near = {} THEN 0 ELSE SetMin(near)

\* mutant: the opening update is not counted again by the arbitration loop
\* (the entry starts one lower)
OpenPending_CountedFromNextFrame(pending, hand_id, hand, pizza_box, frame_num) ==
    PendingPut(pending, [hand_id |-> hand_id, frame |-> frame_num,
                         pizza_box |-> pizza_box, roi_name |-> hand.roi_name,
                         delay_counter |-> -1])

\* the entry update stores when a tracking hand is near a pizza
OpenPending(pending, hand_id, hand, pizza_box, frame_num) ==
    PendingPut(pending, [hand_id |-> hand_id, frame |-> frame_num,
                         pizza_box |-> pizza_box, roi_name |-> hand.roi_name,
                         delay_counter |-> 0])

\* mutant: a hand that leaves its region next to a pizza is checked at once
MatchedHand_StraightToPizza(acc, hand_id, hand_box, pizza_boxes, frame_num) ==
    LET old == acc.hands[hand_id]
        moved == [old EXCEPT !.box = hand_box, !.frames_since_update = 0]
        r == FirstRoiIndex(hand_box)
        p == FirstNearPizza(hand_box, pizza_boxes)
        marked == acc.matched \cup {hand_id}
    IN  IF r # 0
        THEN [acc EXCEPT !.hands[hand_id] =
                             [moved EXCEPT !.state = "in_roi", !.roi_name = rois[r].name],
                         !.matched = marked]
        ELSE IF old.state \in {"in_roi", "tracking_to_pizza"} /\ p # 0
        THEN [acc EXCEPT !.hands[hand_id] = [moved EXCEPT !.state = "waiting_at_pizza"],
                         !.pending = OpenPending(acc.pending, hand_id, old,
                                                 pizza_boxes[p], frame_num),
                         !.matched = marked]
        ELSE IF old.state = "in_roi"
        THEN [acc EXCEPT !.hands[hand_id] = [moved EXCEPT !.state = "tracking_to_pizza"],
                         !.matched = marked]
        ELSE [acc EXCEPT !.hands[hand_id] = moved, !.matched = marked]

\* the state machine for one matched hand; acc = [hands, pending, matched, new_hands]
MatchedHand(acc, hand_id, hand_box, pizza_boxes, frame_num) ==
    LET old == acc.hands[hand_id]
        moved == [old EXCEPT !.box = hand_box, !.frames_since_update = 0]
        r == FirstRoiIndex(hand_box)
        p == FirstNearPizza(hand_box, pizza_boxes)
        marked == acc.matched \cup {hand_id}
    IN  IF r # 0
        THEN [acc EXCEPT !.hands[hand_id] =
                             [moved EXCEPT !.state = "in_roi", !.roi_name = rois[r].name],
                         !.matched = marked]
        ELSE IF old.state = "in_roi"
        THEN [acc EXCEPT !.hands[hand_id] = [moved EXCEPT !.state = "tracking_to_pizza"],
                         !.matched = marked]
        ELSE IF old.state = "tracking_to_pizza" /\ p # 0
        THEN [acc EXCEPT !.hands[hand_id] = [moved EXCEPT !.state = "waiting_at_pizza"],
                         !.pending = OpenPending(acc.pending, hand_id, old,
                                                 pizza_boxes[p], frame_num),
                         !.matched = marked]
        ELSE [acc EXCEPT !.hands[hand_id] = moved, !.matched = marked]

\* mutant: the hand created last takes the box
MatchBox_LatestHand(acc, hand_box, pizza_boxes, frame_num) ==
    LET cand == { id \in DOMAIN acc.hands :
                    /\ id \notin acc.matched
                    /\ FracGt(box_iou(hand_box, acc.hands[id].box), IOU_THRESHOLD) }
    IN  IF cand = {}
        THEN [acc EXCEPT !.new_hands = Append(@, hand_box)]
        ELSE MatchedHand(acc, CHOOSE m \in cand : \A o \in cand : m >= o,
                         hand_box, pizza_boxes, frame_num)

\* one incoming hand box: the first hand, in dict (creation) order, that is not
\* yet matched and overlaps it by more than the threshold takes it
MatchBox(acc, hand_box, pizza_boxes, frame_num) ==
    LET cand == { id \in DOMAIN acc.hands :
                    /\ id \notin acc.matched
                    /\ FracGt(box_iou(hand_box, acc.hands[id].box), IOU_THRESHOLD) }
    IN  IF cand = {}
        THEN [acc EXCEPT !.new_hands = Append(@, hand_box)]
        ELSE MatchedHand(acc, SetMin(cand), hand_box, pizza_boxes, frame_num)

RECURSIVE MatchHands(_, _, _, _)
MatchHands(acc, hand_boxes, pizza_boxes, frame_num) ==
    IF hand_boxes = <<>> THEN acc
    ELSE MatchHands(MatchBox(acc, Head(hand_boxes), pizza_boxes, frame_num),
                    Tail(hand_boxes), pizza_boxes, frame_num)

\* unmatched boxes that lie in a region become new hands; acc = [hands, next_id]
RECURSIVE AddNewHands(_, _)
\* mutant: the update that creates a hand does not count as a frame without it
AddNewHands_CountedFromNextFrame(acc, new_hands) ==
    IF new_hands = <<>> THEN acc
    ELSE LET hand_box == Head(new_hands)
             r == FirstRoiIndex(hand_box)
             added == IF r = 0 THEN acc
                      ELSE [hands |-> acc.hands @@
                                (acc.next_id :> [box |-> hand_box, state |-> "in_roi",
                                                 frames_since_update |-> -1,
                                                 roi_name |-> rois[r].name]),
                            next_id |-> acc.next_id + 1]
         IN  AddNewHands(added, Tail(new_hands))

\* mutant: every unmatched box becomes a hand, in a region or not
AddNewHands_AnyBox(acc, new_hands) ==
    IF new_hands = <<>> THEN acc
    ELSE LET hand_box == Head(new_hands)
             r == FirstRoiIndex(hand_box)
             added == [hands |-> acc.hands @@
                           (acc.next_id :> [box |-> hand_box, state |-> "in_roi",
                                            frames_since_update |-> 0,
                                            roi_name |-> IF r = 0 THEN "None"
                                                         ELSE rois[r].name]),
                       next_id |-> acc.next_id + 1]
         IN  AddNewHands(added, Tail(new_hands))

\* mutant: a new hand takes the lowest id no live hand has
AddNewHands_LowestFreeId(acc, new_hands) ==
    IF new_hands = <<>> THEN acc
    ELSE LET hand_box == Head(new_hands)
             r == FirstRoiIndex(hand_box)
             free == SetMin((0..acc.next_id) \ DOMAIN acc.hands)
             added == IF r = 0 THEN acc
                      ELSE [hands |-> acc.hands @@
                                (free :> [box |-> hand_box, state |-> "in_roi",
                                          frames_since_update |-> 0,
                                          roi_name |-> rois[r].name]),
                            next_id |-> Max(acc.next_id, free + 1)]
         IN  AddNewHands(added, Tail(new_hands))

AddNewHands(acc, new_hands) ==
    IF new_hands = <<>> THEN acc
    ELSE LET hand_box == Head(new_hands)
             r == FirstRoiIndex(hand_box)
             added == IF r = 0 THEN acc
                      ELSE [hands |-> acc.hands @@
                                (acc.next_id :> [box |-> hand_box, state |-> "in_roi",
                                                 frames_since_update |-> 0,
                                                 roi_name |-> rois[r].name]),
                            next_id |-> acc.next_id + 1]
         IN  AddNewHands(added, Tail(new_hands))

\* hands[hand_id]["state"] = "done", when the hand is still tracked
\* mutant: arbitration resolves the check and leaves the hand's state alone
MarkDone_KeepsState(hs, hand_id) == hs

MarkDone(hs, hand_id) ==
    IF hand_id \in DOMAIN hs THEN [hs EXCEPT ![hand_id].state = "done"] ELSE hs

\* mutant: the delay is tested before the evidence
CheckOnePending_DelayBeforeEvidence(acc, i, recent, frame_num) ==
    LET entry == [acc.pending[i] EXCEPT !.delay_counter = @ + 1]
        counted == [acc EXCEPT !.pending[i] = entry]
        violation == [frame |-> frame_num, hand_id |-> entry.hand_id,
                      roi_name |-> entry.roi_name]
    IN  IF entry.delay_counter >= VIOLATION_DELAY_FRAMES
        THEN [counted EXCEPT !.violations = Append(@, violation),
                             !.new_violations = Append(@, violation),
                             !.resolved = @ \cup {entry.hand_id},
                             !.hands = MarkDone(@, entry.hand_id)]
        ELSE IF is_scooper_at_pizza(recent, entry.pizza_box)
        THEN [counted EXCEPT !.resolved = @ \cup {entry.hand_id},
                             !.hands = MarkDone(@, entry.hand_id)]
        ELSE counted

\* mutant: the counter has to exceed the delay
CheckOnePending_StrictDelay(acc, i, recent, frame_num) ==
    LET entry == [acc.pending[i] EXCEPT !.delay_counter = @ + 1]
        counted == [acc EXCEPT !.pending[i] = entry]
        violation == [frame |-> frame_num, hand_id |-> entry.hand_id,
                      roi_name |-> entry.roi_name]
    IN  IF is_scooper_at_pizza(recent, entry.pizza_box)
        THEN [counted EXCEPT !.resolved = @ \cup {entry.hand_id},
                             !.hands = MarkDone(@, entry.hand_id)]
        ELSE IF entry.delay_counter > VIOLATION_DELAY_FRAMES
        THEN [counted EXCEPT !.violations = Append(@, violation),
                             !.new_violations = Append(@, violation),
                             !.resolved = @ \cup {entry.hand_id},
                             !.hands = MarkDone(@, entry.hand_id)]
        ELSE counted

\* mutant: the record is returned but not kept in the tracker's list
CheckOnePending_ReturnsOnly(acc, i, recent, frame_num) ==
    LET entry == [acc.pending[i] EXCEPT !.delay_counter = @ + 1]
        counted == [acc EXCEPT !.pending[i] = entry]
        violation == [frame |-> frame_num, hand_id |-> entry.hand_id,
                      roi_name |-> entry.roi_name]
    IN  IF is_scooper_at_pizza(recent, entry.pizza_box)
        THEN [counted EXCEPT !.resolved = @ \cup {entry.hand_id},
                             !.hands = MarkDone(@, entry.hand_id)]
        ELSE IF entry.delay_counter >= VIOLATION_DELAY_FRAMES
        THEN [counted EXCEPT !.new_violations = Append(@, violation),
                             !.resolved = @ \cup {entry.hand_id},
                             !.hands = MarkDone(@, entry.hand_id)]
        ELSE counted

\* mutant: only the record committed last is returned
CheckOnePending_ReturnsLastOnly(acc, i, recent, frame_num) ==
    LET entry == [acc.pending[i] EXCEPT !.delay_counter = @ + 1]
        counted == [acc EXCEPT !.pending[i] = entry]
        violation == [frame |-> frame_num, hand_id |-> entry.hand_id,
                      roi_name |-> entry.roi_name]
    IN  IF is_scooper_at_pizza(recent, entry.pizza_box)
        THEN [counted EXCEPT !.resolved = @ \cup {entry.hand_id},
                             !.hands = MarkDone(@, entry.hand_id)]
        ELSE IF entry.delay_counter >= VIOLATION_DELAY_FRAMES
        THEN [counted EXCEPT !.violations = Append(@, violation),
                             !.new_violations = << violation >>,
                             !.resolved = @ \cup {entry.hand_id},
                             !.hands = MarkDone(@, entry.hand_id)]
        ELSE counted

\* one pending entry; acc = [hands, pending, resolved, violations, new_violations]
CheckOnePending(acc, i, recent, frame_num) ==
    LET entry == [acc.pending[i] EXCEPT !.delay_counter = @ + 1]
        counted == [acc EXCEPT !.pending[i] = entry]
        violation == [frame |-> frame_num, hand_id |-> entry.hand_id,
                      roi_name |-> entry.roi_name]
    IN  IF is_scooper_at_pizza(recent, entry.pizza_box)
        THEN [counted EXCEPT !.resolved = @ \cup {entry.hand_id},
                             !.hands = MarkDone(@, entry.hand_id)]
        ELSE IF entry.delay_counter >= VIOLATION_DELAY_FRAMES
        THEN [counted EXCEPT !.violations = Append(@, violation),
                             !.new_violations = Append(@, violation),
                             !.resolved = @ \cup {entry.hand_id},
                             !.hands = MarkDone(@, entry.hand_id)]
        ELSE counted

RECURSIVE CheckPendingFrom(_, _, _, _)
CheckPendingFrom(acc, i, recent, frame_num) ==
    IF i > Len(acc.pending) THEN acc
    ELSE CheckPendingFrom(CheckOnePending(acc, i, recent, frame_num),
                          i + 1, recent, frame_num)

\* the arbitration loop and the deletion of the resolved entries
CheckPending(hs, pending, viols, recent, frame_num) ==
    LET acc == CheckPendingFrom([hands |-> hs, pending |-> pending, resolved |-> {},
                                 violations |-> viols, new_violations |-> <<>>],
                                1, recent, frame_num)
    IN  [acc EXCEPT !.pending = PendingDel(@, acc.resolved)]

\* mutant: no double grace for hands on their way
HandTimeout_NoDoubleGrace(state) == HAND_TIMEOUT_FRAMES

\* the timeout of a hand, by its state
HandTimeout(state) ==
    IF state \in {"tracking_to_pizza", "waiting_at_pizza"}
    THEN HAND_TIMEOUT_FRAMES * 2 ELSE HAND_TIMEOUT_FRAMES

\* the hands update removes: not matched and, once counted, past their timeout
LostHands(hs, matched) ==
    { id \in DOMAIN hs : /\ id \notin matched
                         /\ hs[id].frames_since_update + 1 > HandTimeout(hs[id].state) }

\* mutant: the counter of every hand goes up, matched or not
RemoveLostHands_CountsMatched(hs, pending, matched) ==
    [hands |-> [id \in DOMAIN hs \ LostHands(hs, matched) |->
                   [hs[id] EXCEPT !.frames_since_update = @ + 1]],
     pending |-> PendingDel(pending, LostHands(hs, matched)),
     lost_hands |-> LostHands(hs, matched)]

\* mutant: a hand is removed after two unmatched frames, and its check is
\* left behind
RemoveLostHands_EarlyKeepsChecks(hs, pending, matched) ==
    LET lost == { id \in DOMAIN hs \ matched : hs[id].frames_since_update + 1 > 2 }
    IN  [hands |-> [id \in DOMAIN hs \ lost |->
                       IF id \in matched THEN hs[id]
                       ELSE [hs[id] EXCEPT !.frames_since_update = @ + 1]],
         pending |-> pending,
         lost_hands |-> lost]

\* the eviction loop
RemoveLostHands(hs, pending, matched) ==
    LET lost == LostHands(hs, matched)
    IN  [hands |-> [id \in DOMAIN hs \ lost |->
                       IF id \in matched THEN hs[id]
                       ELSE [hs[id] EXCEPT !.frames_since_update = @ + 1]],
         pending |-> PendingDel(pending, lost),
         lost_hands |-> lost]

\* HandTracker.update on the tracker t: the tracker after the call with the
\* returned list (new_violations) and the set matched_hands
update(t, hand_boxes, scooper_boxes, pizza_boxes, frame_num) ==
    LET history == AppendScooperHistory(t.scooper_history, scooper_boxes)
        recent == all_recent_scoopers(history)
        m == MatchHands([hands |-> t.hands, pending |-> t.pending_violations,
                         matched |-> {}, new_hands |-> <<>>],
                        hand_boxes, pizza_boxes, frame_num)
        a == AddNewHands([hands |-> m.hands, next_id |-> t.next_id], m.new_hands)
        c == CheckPending(a.hands, m.pending, t.violations, recent, frame_num)
        e == RemoveLostHands(c.hands, c.pending, m.matched)
    IN  [next_id |-> a.next_id,
         hands |-> e.hands,
         violations |-> c.violations,
         scooper_history |-> history,
         pending_violations |-> e.pending,
         new_violations |-> c.new_violations,
         matched_hands |-> m.matched,
         lost_hands |-> e.lost_hands]

\* HandTracker.update when its first region lookup (the loop over self.rois
\* that calls is_in_roi) raises: the tracker as the statements before that
\* lookup leave it.  The history has the scooper
\* boxes of the frame; if a box of the frame finds a hand, the first such box
\* is already in that hand, with frames_since_update 0, when the region
\* lookup of the matching loop raises; if none does, the lookup that raises
\* is the one of the loop over new_hands and no hand has changed.
update_raises(t, hand_boxes, scooper_boxes, pizza_boxes, frame_num) ==
    LET history == AppendScooperHistory(t.scooper_history, scooper_boxes)
        fits(i) == { id \in DOMAIN t.hands :
                       FracGt(box_iou(hand_boxes[i], t.hands[id].box), IOU_THRESHOLD) }
        found == { i \in 1..Len(hand_boxes) : fits(i) # {} }
    IN  [t EXCEPT !.scooper_history = history,
                  !.hands = IF found = {} THEN @
                            ELSE [@ EXCEPT ![SetMin(fits(SetMin(found)))] =
                                     [@ EXCEPT !.box = hand_boxes[SetMin(found)],
                                               !.frames_since_update = 0]]]

get_violation_count(viols) == Len(viols)

\* the tracker of the current state, as the record update works on
Tracker ==
    [next_id |-> next_id, hands |-> hands, violations |-> violations,
     scooper_history |-> scooper_history, pending_violations |-> pending_violations]

\* --------------------------------------------------------------- actions
\* HandTracker.__init__, before any frame
\* the frame reader has not been started
ReaderIdle ==
    /\ frame_number = 0
    /\ frames_read = 0
    /\ frame_queue = << >>
    /\ total_frames = 0
    /\ reader_pc = "idle"

\* no connection loop is running
RetryIdle ==
    /\ max_retries = 0
    /\ attempt = 0
    /\ tried = 0
    /\ sleeps = 0
    /\ retry_pc = "idle"
    /\ connected = FALSE

\* mutant: the counter advances for every frame read
NextFrameNumber_CountsEveryFrame(n, ok) == n + 1

\* FrameReader.read_and_stream: frame_number after a publish_frame call
\* that returned ok
NextFrameNumber(n, ok) == IF ok THEN n + 1 ELSE n

\* the connection functions with a retry loop, and their max_retries
ConnectFunctions == { "FrameReader.connect_rabbitmq",
                      "ViolationDetector.connect_rabbitmq",
                      "ViolationDetector.connect_postgres" }

MaxRetriesOf(function) ==
    IF function = "FrameReader.connect_rabbitmq" THEN 10 ELSE 15

\* mutant: the loop sleeps after every failed attempt, the last one too
SleepsAfterFailure_Always(a, m) == TRUE

\* the except branch of the loop sleeps when attempt a is not the last one
SleepsAfterFailure(a, m) == a < m - 1

\* no call of load_rois or box_iou on its own has been made
NotCalled == [called |-> FALSE, raised |-> FALSE, value |-> << >>]

\* the lists of at most n regions drawn from the regions of rois
RECURSIVE RegionLists(_)
RegionLists(n) ==
    IF n = 0 THEN { << >> }
    ELSE RegionLists(n - 1) \cup
         { Append(l, rois[i]) : l \in { m \in RegionLists(n - 1) : Len(m) = n - 1 },
                                i \in 1..Len(rois) }

\* what can be at one of the paths load_rois tries: nothing, a file that
\* json.load or config["rois"] rejects, or a configuration with a region list
ConfigFiles ==
    { [exists |-> FALSE, valid |-> FALSE, rois |-> << >>],
      [exists |-> TRUE, valid |-> FALSE, rois |-> << >>] }
    \cup { [exists |-> TRUE, valid |-> TRUE, rois |-> l] :
             l \in RegionLists(MaxConfigRegions) }

\* ViolationDetector.load_rois over the files at possible_paths, in order
load_rois(files) ==
    LET found == { i \in 1..Len(files) : files[i].exists }
    IN  IF found = {}
        THEN [called |-> TRUE, raised |-> FALSE,
              value |-> << [name |-> "Cheese", x |-> 454, y |-> 350,
                            w |-> 64, h |-> 37] >>]
        ELSE IF files[SetMin(found)].valid
        THEN [called |-> TRUE, raised |-> FALSE,
              value |-> files[SetMin(found)].rois]
        ELSE [called |-> TRUE, raised |-> TRUE, value |-> << >>]

\* the boxes with integer coordinates in 0 .. MaxCoord, degenerate ones too
CoordBoxes == (0..MaxCoord) \X (0..MaxCoord) \X (0..MaxCoord) \X (0..MaxCoord)

Init ==
    /\ next_id = 0
    /\ hands = << >>
    /\ violations = << >>
    /\ scooper_history = << >>
    /\ pending_violations = << >>
    /\ frame_msg = [frame_number |-> -1, hand_boxes |-> << >>,
                    scooper_boxes |-> << >>, pizza_boxes |-> << >>]
    /\ new_violations = << >>
    /\ matched_hands = {}
    /\ lost_hands = {}
    /\ redelivered = 0
    /\ scooper_frames = 0
    /\ published = << >>
    /\ raised = "none"
    /\ decoded = TRUE
    /\ acked = TRUE
    /\ channel_open = TRUE
    /\ save_calls = << >>
    /\ stored = << >>
    /\ args = << >>
    /\ returned = NotCalled
    /\ ReaderIdle
    /\ RetryIdle

\* mutant: the message carries the number of violations of the frame
result_message_CountOfFrame(r, msg) ==
    [frame_number |-> msg.frame_number,
     violation_detected |-> Len(r.new_violations) > 0,
     violation_count |-> Len(r.new_violations)]

\* the message process_frame publishes for the frame of msg after the update
\* that gave r
result_message(r, msg) ==
    [frame_number |-> msg.frame_number,
     violation_detected |-> Len(r.new_violations) > 0,
     violation_count |-> get_violation_count(r.violations)]

\* mutant: the save loop ends at the first record that cannot be saved
save_violations_StopsAtFailure(rows, records, failing) ==
    LET first == IF failing \cap (1..Len(records)) = {} THEN Len(records)
                 ELSE SetMin(failing \cap (1..Len(records)))
    IN  [calls |-> SubSeq(records, 1, first),
         rows |-> rows \o SubSeq(records, 1, first - 1)]

\* the loop of process_frame over new_violations: save_violation is called
\* for every record; the calls whose places are in failing raise inside
\* save_violation, which logs, rolls back and returns
save_violations(rows, records, failing) ==
    LET kept == { i \in 1..Len(records) : i \notin failing }
    IN  [calls |-> records,
         rows |-> rows \o [k \in 1..Cardinality(kept) |->
                              records[CHOOSE i \in kept :
                                          Cardinality({ j \in kept : j <= i }) = k]]]

\* the tracker after update with the boxes of msg, and what update returns
Updated(msg) ==
    update(Tracker, msg.hand_boxes, msg.scooper_boxes, msg.pizza_boxes,
           msg.frame_number)

\* process_frame on the message msg once its frame is decoded and update has
\* given r: the saves (those in failing fail), the publish (raises unless
\* publish_ok) and the acknowledgement (raises unless ack_ok; the except
\* branch tries it again and gives up)
Handle(msg, r, failing, publish_ok, ack_ok) ==
        /\ next_id' = r.next_id
        /\ hands' = r.hands
        /\ violations' = r.violations
        /\ scooper_history' = r.scooper_history
        /\ pending_violations' = r.pending_violations
        /\ new_violations' = r.new_violations
        /\ matched_hands' = r.matched_hands
        /\ lost_hands' = r.lost_hands
        /\ frame_msg' = msg
        /\ decoded' = TRUE
        /\ \E s \in { save_violations(stored, r.new_violations, failing) } :
              /\ save_calls' = s.calls
              /\ stored' = s.rows
        /\ published' = IF publish_ok THEN << result_message(r, msg) >> ELSE << >>
        /\ raised' = IF ~publish_ok THEN "basic_publish"
                     ELSE IF ~ack_ok THEN "basic_ack" ELSE "none"
        /\ acked' = ack_ok
        /\ channel_open' = ack_ok
        /\ UNCHANGED <<args, returned>>
        /\ UNCHANGED <<reader_vars, retry_vars>>

\* process_frame on the message msg, no step of it raising
Deliver(msg) == \E r \in { Updated(msg) } : Handle(msg, r, {}, TRUE, TRUE)

\* process_frame on the message msg when basic_publish raises (the connection
\* to the broker is lost and ensure_rabbitmq could not restore it): the update
\* has been made, the handler logs the error and tries to acknowledge, which
\* on a lost connection raises as well
DeliverUnpublished(msg) ==
    \E r \in { Updated(msg) } : \E ack_ok \in BOOLEAN : Handle(msg, r, {}, FALSE, ack_ok)

\* process_frame on the message msg when the database fails under some of
\* the saves of the frame
DeliverUnsaved(msg) ==
    \E r \in { Updated(msg) } :
        \E failing \in SUBSET (1..Len(r.new_violations)) :
            /\ failing # {}
            /\ Handle(msg, r, failing, TRUE, TRUE)

\* process_frame on the message msg when update raises at its first region
\* lookup: the except branch logs and calls basic_ack, giving up when that
\* raises; nothing is saved or published
DeliverFaulty(msg) ==
    \E t \in { update_raises(Tracker, msg.hand_boxes, msg.scooper_boxes,
                              msg.pizza_boxes, msg.frame_number) } :
        /\ next_id' = t.next_id
        /\ hands' = t.hands
        /\ violations' = t.violations
        /\ scooper_history' = t.scooper_history
        /\ pending_violations' = t.pending_violations
        /\ frame_msg' = msg
        /\ decoded' = TRUE
        /\ save_calls' = << >>
        /\ published' = << >>
        /\ raised' = "update"
        /\ \E ack_ok \in BOOLEAN :
              /\ acked' = ack_ok
              /\ channel_open' = ack_ok
        /\ UNCHANGED <<new_violations, matched_hands, lost_hands, stored>>
        /\ UNCHANGED <<args, returned>>
        /\ UNCHANGED <<reader_vars, retry_vars>>

\* mutant: the frame that cannot be decoded still counts as a frame without
\* scoopers
DropFrame_CountsFrame(msg) ==
    /\ scooper_history' = AppendScooperHistory(scooper_history, << >>)
    /\ UNCHANGED <<next_id, hands, violations, pending_violations>>
    /\ frame_msg' = msg
    /\ decoded' = FALSE
    /\ save_calls' = << >>
    /\ published' = << >>
    /\ \E ack_ok \in BOOLEAN :
          /\ raised' = IF ack_ok THEN "none" ELSE "basic_ack"
          /\ acked' = ack_ok
          /\ channel_open' = ack_ok
    /\ UNCHANGED <<new_violations, matched_hands, lost_hands, stored>>
    /\ UNCHANGED <<args, returned>>
    /\ UNCHANGED <<reader_vars, retry_vars>>

\* mutant: the early return leaves the message unacknowledged
DropFrame_ReturnsWithoutAck(msg) ==
    /\ UNCHANGED <<next_id, hands, violations, scooper_history, pending_violations>>
    /\ frame_msg' = msg
    /\ decoded' = FALSE
    /\ save_calls' = << >>
    /\ published' = << >>
    /\ raised' = "none"
    /\ acked' = FALSE
    /\ channel_open' \in BOOLEAN
    /\ UNCHANGED <<new_violations, matched_hands, lost_hands, stored>>
    /\ UNCHANGED <<args, returned>>
    /\ UNCHANGED <<reader_vars, retry_vars>>

\* process_frame on the message msg when cv2.imdecode gives no frame:
\* basic_ack is called and the handler returns before the detector and the
\* tracker are called; when basic_ack raises, the except branch calls it
\* again and gives up
DropFrame(msg) ==
    /\ UNCHANGED <<next_id, hands, violations, scooper_history, pending_violations>>
    /\ frame_msg' = msg
    /\ decoded' = FALSE
    /\ save_calls' = << >>
    /\ published' = << >>
    /\ \E ack_ok \in BOOLEAN :
          /\ raised' = IF ack_ok THEN "none" ELSE "basic_ack"
          /\ acked' = ack_ok
          /\ channel_open' = ack_ok
    /\ UNCHANGED <<new_violations, matched_hands, lost_hands, stored>>
    /\ UNCHANGED <<args, returned>>
    /\ UNCHANGED <<reader_vars, retry_vars>>

\* process_frame on the message msg when the connection is lost after the
\* publish: basic_ack raises, the except branch tries it again and gives up
DeliverUnacked(msg) == \E r \in { Updated(msg) } : Handle(msg, r, {}, TRUE, FALSE)

\* the messages the stream can deliver after the last one, with hand and
\* scooper boxes out of the given lists
NextMessages(handLists, scooperLists) ==
    { [frame_number |-> frame_msg.frame_number + 1, hand_boxes |-> hb,
       scooper_boxes |-> sb, pizza_boxes |-> pb] :
        hb \in handLists,
        sb \in { l \in scooperLists : l # << >> => scooper_frames < MaxScooperFrames },
        pb \in PizzaBoxLists }

ScooperFramesAfter(msg) ==
    IF msg.scooper_boxes # << >> THEN scooper_frames + 1 ELSE scooper_frames

\* Spec: every frame reaches the tracker once, in order
NewFrame ==
    /\ frame_msg.frame_number < MaxFrame
    /\ \E msg \in NextMessages(HandBoxLists, ScooperBoxLists) :
          /\ Deliver(msg)
          /\ scooper_frames' = ScooperFramesAfter(msg)
    /\ UNCHANGED redelivered

Next == NewFrame

Spec == Init /\ [][Next]_vars

\* SpecReplay: the transport is at-least-once, so the message delivered last
\* can reach process_frame, and with it update, again
FreshFrame ==
    /\ frame_msg.frame_number < MaxReplayFrame
    /\ \E msg \in NextMessages(HandBoxLists, ScooperBoxLists) :
          /\ Deliver(msg)
          /\ scooper_frames' = ScooperFramesAfter(msg)
    /\ UNCHANGED redelivered

Redeliver ==
    /\ frame_msg.frame_number >= 0
    /\ redelivered < MaxRedeliver
    /\ redelivered' = redelivered + 1
    /\ Deliver(frame_msg)
    /\ UNCHANGED scooper_frames

NextReplay == FreshFrame \/ Redeliver

SpecReplay == Init /\ [][NextReplay]_vars

\* SpecLost: the hands leave the picture for good after the first frames
ActiveFrame ==
    /\ frame_msg.frame_number < MaxActiveFrame
    /\ \E msg \in NextMessages(HandBoxLists, ScooperBoxLists) :
          /\ Deliver(msg)
          /\ scooper_frames' = ScooperFramesAfter(msg)
    /\ UNCHANGED redelivered

QuietFrame ==
    /\ frame_msg.frame_number >= MaxActiveFrame
    /\ frame_msg.frame_number < MaxLostFrame
    /\ \E msg \in NextMessages({ << >> }, { << >> }) :
          /\ Deliver(msg)
          /\ scooper_frames' = ScooperFramesAfter(msg)
    /\ UNCHANGED redelivered

ReturnFrame ==
    /\ frame_msg.frame_number >= MaxLostFrame
    /\ frame_msg.frame_number < MaxLostFrame + MaxReturnFrames
    /\ \E msg \in NextMessages(TwoHandBoxLists, { << >> }) :
          /\ Deliver(msg)
          /\ scooper_frames' = ScooperFramesAfter(msg)
    /\ UNCHANGED redelivered

NextLost == ActiveFrame \/ QuietFrame \/ ReturnFrame

SpecLost == Init /\ [][NextLost]_vars

\* SpecTwoHands: two hands side by side in the first frames; afterwards each
\* frame shows the hands where they were or no hand at all
TwoHandFrame ==
    /\ frame_msg.frame_number < MaxTwoHandFrame
    /\ \E msg \in NextMessages(TwoHandBoxLists, NearScooperLists) :
          /\ Deliver(msg)
          /\ scooper_frames' = ScooperFramesAfter(msg)
    /\ UNCHANGED redelivered

SettleFrame ==
    /\ frame_msg.frame_number >= MaxTwoHandFrame
    /\ frame_msg.frame_number < MaxSettleFrame
    /\ \E msg \in NextMessages({ << >>, frame_msg.hand_boxes }, NearScooperLists) :
          /\ Deliver(msg)
          /\ scooper_frames' = ScooperFramesAfter(msg)
    /\ UNCHANGED redelivered

NextTwoHands == TwoHandFrame \/ SettleFrame

SpecTwoHands == Init /\ [][NextTwoHands]_vars

\* SpecPipeline: the results channel can fail under process_frame
Processed ==
    /\ frame_msg.frame_number < MaxPipelineFrame
    /\ \E msg \in NextMessages(HandBoxLists, NearScooperLists) :
          /\ Deliver(msg)
          /\ scooper_frames' = ScooperFramesAfter(msg)
    /\ UNCHANGED redelivered

PublishFails ==
    /\ frame_msg.frame_number < MaxPipelineFrame
    /\ \E msg \in NextMessages(HandBoxLists, NearScooperLists) :
          /\ DeliverUnpublished(msg)
          /\ scooper_frames' = ScooperFramesAfter(msg)
    /\ UNCHANGED redelivered

NextPipeline == Processed \/ PublishFails

SpecPipeline == Init /\ [][NextPipeline]_vars

\* SpecSaves: the database can fail under save_violation
SavedFrame ==
    /\ frame_msg.frame_number < MaxSaveFrame
    /\ \E msg \in NextMessages(PipelineHandLists, NearScooperLists) :
          /\ Deliver(msg)
          /\ scooper_frames' = ScooperFramesAfter(msg)
    /\ UNCHANGED redelivered

SaveFails ==
    /\ frame_msg.frame_number < MaxSaveFrame
    /\ \E msg \in NextMessages(PipelineHandLists, NearScooperLists) :
          /\ DeliverUnsaved(msg)
          /\ scooper_frames' = ScooperFramesAfter(msg)
    /\ UNCHANGED redelivered

NextSaves == SavedFrame \/ SaveFails

SpecSaves == Init /\ [][NextSaves]_vars

\* SpecFaults: every way through process_frame
HandledFrame ==
    /\ frame_msg.frame_number < MaxFaultFrame
    /\ \E msg \in NextMessages(HandBoxLists, NearScooperLists) :
          /\ Deliver(msg)
          /\ scooper_frames' = ScooperFramesAfter(msg)
    /\ UNCHANGED redelivered

\* the frame of the message cannot be decoded; no boxes are known for it
DecodeFails ==
    /\ frame_msg.frame_number < MaxFaultFrame
    /\ \E msg \in NextMessages({ << >> }, { << >> }) :
          /\ DropFrame([msg EXCEPT !.pizza_boxes = << >>])
          /\ scooper_frames' = ScooperFramesAfter(msg)
    /\ UNCHANGED redelivered

\* a region lookup raises inside update
UpdateRaises ==
    /\ frame_msg.frame_number < MaxFaultFrame
    /\ \E msg \in NextMessages(HandBoxLists \ { << >> }, NearScooperLists) :
          /\ DeliverFaulty(msg)
          /\ scooper_frames' = ScooperFramesAfter(msg)
    /\ UNCHANGED redelivered

ResultFails ==
    /\ frame_msg.frame_number < MaxFaultFrame
    /\ \E msg \in NextMessages(HandBoxLists, NearScooperLists) :
          /\ DeliverUnpublished(msg)
          /\ scooper_frames' = ScooperFramesAfter(msg)
    /\ UNCHANGED redelivered

AckFails ==
    /\ frame_msg.frame_number < MaxFaultFrame
    /\ \E msg \in NextMessages(HandBoxLists, NearScooperLists) :
          /\ DeliverUnacked(msg)
          /\ scooper_frames' = ScooperFramesAfter(msg)
    /\ UNCHANGED redelivered

NextFaults == HandledFrame \/ DecodeFails \/ UpdateRaises \/ ResultFails \/ AckFails

SpecFaults == Init /\ [][NextFaults]_vars

\* SpecRois: the constructor calls load_rois once, over any three files
InitRois ==
    /\ next_id = 0
    /\ hands = << >>
    /\ violations = << >>
    /\ scooper_history = << >>
    /\ pending_violations = << >>
    /\ frame_msg = [frame_number |-> -1, hand_boxes |-> << >>,
                    scooper_boxes |-> << >>, pizza_boxes |-> << >>]
    /\ new_violations = << >>
    /\ matched_hands = {}
    /\ lost_hands = {}
    /\ redelivered = 0
    /\ scooper_frames = 0
    /\ published = << >>
    /\ raised = "none"
    /\ decoded = TRUE
    /\ acked = TRUE
    /\ channel_open = TRUE
    /\ save_calls = << >>
    /\ stored = << >>
    /\ args \in [1..3 -> ConfigFiles]
    /\ returned = NotCalled
    /\ ReaderIdle
    /\ RetryIdle

LoadRois ==
    /\ ~returned.called
    /\ returned' = load_rois(args)
    /\ UNCHANGED <<next_id, hands, violations, scooper_history,
                   pending_violations, frame_msg, new_violations,
                   matched_hands, lost_hands, redelivered, scooper_frames,
                   published, raised, decoded, acked, save_calls, stored, args,
                   channel_open>>
    /\ UNCHANGED <<reader_vars, retry_vars>>

SpecRois == InitRois /\ [][LoadRois]_vars

\* SpecIou: box_iou called once, on any two boxes
InitIou ==
    /\ next_id = 0
    /\ hands = << >>
    /\ violations = << >>
    /\ scooper_history = << >>
    /\ pending_violations = << >>
    /\ frame_msg = [frame_number |-> -1, hand_boxes |-> << >>,
                    scooper_boxes |-> << >>, pizza_boxes |-> << >>]
    /\ new_violations = << >>
    /\ matched_hands = {}
    /\ lost_hands = {}
    /\ redelivered = 0
    /\ scooper_frames = 0
    /\ published = << >>
    /\ raised = "none"
    /\ decoded = TRUE
    /\ acked = TRUE
    /\ channel_open = TRUE
    /\ save_calls = << >>
    /\ stored = << >>
    /\ args \in CoordBoxes \X CoordBoxes
    /\ returned = NotCalled
    /\ ReaderIdle
    /\ RetryIdle

CallIou ==
    /\ ~returned.called
    /\ returned' = [called |-> TRUE, raised |-> FALSE,
                    value |-> box_iou(args[1], args[2])]
    /\ UNCHANGED <<next_id, hands, violations, scooper_history,
                   pending_violations, frame_msg, new_violations,
                   matched_hands, lost_hands, redelivered, scooper_frames,
                   published, raised, decoded, acked, save_calls, stored, args,
                   channel_open>>
    /\ UNCHANGED <<reader_vars, retry_vars>>

SpecIou == InitIou /\ [][CallIou]_vars

\* SpecReader: FrameReader.read_and_stream over a video of any length, after
\* the connection and the video have been opened
InitReader ==
    /\ next_id = 0
    /\ hands = << >>
    /\ violations = << >>
    /\ scooper_history = << >>
    /\ pending_violations = << >>
    /\ frame_msg = [frame_number |-> -1, hand_boxes |-> << >>,
                    scooper_boxes |-> << >>, pizza_boxes |-> << >>]
    /\ new_violations = << >>
    /\ matched_hands = {}
    /\ lost_hands = {}
    /\ redelivered = 0
    /\ scooper_frames = 0
    /\ published = << >>
    /\ raised = "none"
    /\ decoded = TRUE
    /\ acked = TRUE
    /\ channel_open = TRUE
    /\ save_calls = << >>
    /\ stored = << >>
    /\ args = << >>
    /\ returned = NotCalled
    /\ RetryIdle
    /\ frame_number = 0
    /\ frames_read = 0
    /\ frame_queue = << >>
    /\ total_frames \in 0..MaxVideoFrames
    /\ reader_pc = "reading"

detector_vars == <<next_id, hands, violations, scooper_history,
                   pending_violations, frame_msg, new_violations,
                   matched_hands, lost_hands, redelivered, scooper_frames,
                   published, raised, decoded, acked, save_calls, stored,
                   args, returned, channel_open>>

\* cap.read() returns a frame and publish_frame returns True for it
PublishFrame ==
    /\ reader_pc = "reading"
    /\ frames_read < total_frames
    /\ frames_read' = frames_read + 1
    /\ frame_queue' = Append(frame_queue,
                             [frame_number |-> frame_number, frame |-> frames_read])
    /\ frame_number' = NextFrameNumber(frame_number, TRUE)
    /\ UNCHANGED <<total_frames, reader_pc, detector_vars, retry_vars>>

\* cap.read() returns a frame and publish_frame catches an exception of
\* imencode, json.dumps or basic_publish and returns False
PublishRaises ==
    /\ reader_pc = "reading"
    /\ frames_read < total_frames
    /\ frames_read' = frames_read + 1
    /\ frame_queue' = frame_queue
    /\ frame_number' = NextFrameNumber(frame_number, FALSE)
    /\ UNCHANGED <<total_frames, reader_pc, detector_vars, retry_vars>>

\* cap.read() returns ret False: the loop ends
VideoEnds ==
    /\ reader_pc = "reading"
    /\ frames_read = total_frames
    /\ reader_pc' = "finished"
    /\ UNCHANGED <<frame_number, frames_read, frame_queue, total_frames,
                   detector_vars, retry_vars>>

NextReader == PublishFrame \/ PublishRaises \/ VideoEnds

SpecReader == InitReader /\ [][NextReader]_vars

\* SpecRetry: one call of a connection function; every attempt can succeed
\* or raise
InitRetry ==
    /\ next_id = 0
    /\ hands = << >>
    /\ violations = << >>
    /\ scooper_history = << >>
    /\ pending_violations = << >>
    /\ frame_msg = [frame_number |-> -1, hand_boxes |-> << >>,
                    scooper_boxes |-> << >>, pizza_boxes |-> << >>]
    /\ new_violations = << >>
    /\ matched_hands = {}
    /\ lost_hands = {}
    /\ redelivered = 0
    /\ scooper_frames = 0
    /\ published = << >>
    /\ raised = "none"
    /\ decoded = TRUE
    /\ acked = TRUE
    /\ channel_open = TRUE
    /\ save_calls = << >>
    /\ stored = << >>
    /\ returned = NotCalled
    /\ ReaderIdle
    /\ \E function \in ConnectFunctions :
          /\ args = << function >>
          /\ max_retries = MaxRetriesOf(function)
    /\ attempt = 0
    /\ tried = 0
    /\ sleeps = 0
    /\ retry_pc = "try"
    /\ connected = FALSE

\* the try block runs to its return True
Connects ==
    /\ retry_pc = "try"
    /\ attempt < max_retries
    /\ tried' = tried + 1
    /\ retry_pc' = "returned"
    /\ connected' = TRUE
    /\ UNCHANGED <<max_retries, attempt, sleeps, detector_vars, reader_vars>>

\* the try block raises; the except branch is entered
ConnectRaises ==
    /\ retry_pc = "try"
    /\ attempt < max_retries
    /\ tried' = tried + 1
    /\ retry_pc' = "except"
    /\ UNCHANGED <<max_retries, attempt, sleeps, connected, detector_vars,
                   reader_vars>>

\* the except branch logs, sleeps unless the attempt was the last one, and
\* the loop takes the next value of the range
NextAttempt ==
    /\ retry_pc = "except"
    /\ sleeps' = IF SleepsAfterFailure(attempt, max_retries)
                 THEN sleeps + 1 ELSE sleeps
    /\ attempt' = attempt + 1
    /\ retry_pc' = "try"
    /\ UNCHANGED <<max_retries, tried, connected, detector_vars, reader_vars>>

\* the range is exhausted: return False
GivesUp ==
    /\ retry_pc = "try"
    /\ attempt = max_retries
    /\ retry_pc' = "returned"
    /\ connected' = FALSE
    /\ UNCHANGED <<max_retries, attempt, tried, sleeps, detector_vars,
                   reader_vars>>

NextRetry == Connects \/ ConnectRaises \/ NextAttempt \/ GivesUp

SpecRetry == InitRetry /\ [][NextRetry]_vars

\* the loop is sequential code: its next statement is always executed, and
\* every connection attempt and every sleep ends
SpecRetryFair == SpecRetry /\ WF_vars(NextRetry)

\* ---------------------------------------------------------------- claims
\* the boxes of every frame still in the history, one box at a time: some
\* scooper box has its centre within the pizza box widened by 0.4 of its
\* width and height on each side
EvidenceIn(history, pizza_box) ==
    \E k \in 1..Len(history) : \E i \in 1..Len(history[k]) :
        LET s == history[k][i]
            cx == (s[1] + s[3]) \div 2
            cy == (s[2] + s[4]) \div 2
            pw == pizza_box[3] - pizza_box[1]
            ph == pizza_box[4] - pizza_box[2]
        IN  /\ 5 * pizza_box[1] - 2 * pw <= 5 * cx
            /\ 5 * cx <= 5 * pizza_box[3] + 2 * pw
            /\ 5 * pizza_box[2] - 2 * ph <= 5 * cy
            /\ 5 * cy <= 5 * pizza_box[4] + 2 * ph

\* the hand ids of the records the update just returned
Committed(records) == { records[i].hand_id : i \in 1..Len(records) }

C2_ClearedByEvidence ==
    [][/\ scooper_history'
             = IF Len(scooper_history) < SCOOPER_MEMORY_FRAMES
               THEN Append(scooper_history, frame_msg'.scooper_boxes)
               ELSE Append(Tail(scooper_history), frame_msg'.scooper_boxes)
       /\ \A i \in 1..Len(pending_violations') :
             ~EvidenceIn(scooper_history', pending_violations'[i].pizza_box)
       /\ \A id \in PendingIds(pending_violations) :
             ( /\ EvidenceIn(scooper_history',
                             PendingOf(pending_violations, id).pizza_box)
               /\ id \notin PendingIds(pending_violations') )
             => /\ id \notin Committed(new_violations')
                /\ id \in DOMAIN hands'
                /\ hands'[id].state = "done"
                /\ violations' = violations]_vars

\* C2 witness: the hand was last seen in frame 5, so its check was open from
\* frame 5 at the latest; the scooper of frame 10, the only one of the run,
\* cleared it, and no record exists.
C2_Witness ==
    /\ frame_msg.frame_number = 10
    /\ frame_msg.scooper_boxes = << ScooperNear >>
    /\ 0 \in DOMAIN hands
    /\ hands[0].state = "done"
    /\ hands[0].frames_since_update = 5
    /\ pending_violations = << >>
    /\ violations = << >>

\* C3: every record an update returns belongs to a check that was open before
\* the update, whose counter the update brings to at least 10, with no scooper
\* near (0.4) its pizza box in the history of at most 15 frames that ends with
\* the current frame; the record has the current frame number, the hand id and
\* the region name of the check; the check is gone and the hand is done.
C3_CommitOnlyWithoutEvidence ==
    [][\A i \in 1..Len(new_violations') :
          LET v == new_violations'[i]
              id == v.hand_id
          IN  /\ id \in PendingIds(pending_violations)
              /\ LET p == PendingOf(pending_violations, id)
                 IN  /\ p.delay_counter + 1 >= VIOLATION_DELAY_FRAMES
                     /\ ~EvidenceIn(scooper_history', p.pizza_box)
                     /\ v = [frame |-> frame_msg'.frame_number, hand_id |-> id,
                             roi_name |-> p.roi_name]
              /\ Len(scooper_history') <= SCOOPER_MEMORY_FRAMES
              /\ scooper_history'[Len(scooper_history')] = frame_msg'.scooper_boxes
              /\ id \notin PendingIds(pending_violations')
              /\ id \in DOMAIN hands'
              /\ hands'[id].state = "done"]_vars

\* C3 witness: a record was returned although a scooper was seen, only not
\* near enough (within 0.5 but not 0.4 of the pizza box).
C3_Witness ==
    /\ Len(new_violations) = 1
    /\ scooper_frames = 1
    /\ \E k \in 1..Len(scooper_history) : scooper_history[k] = << ScooperFar >>

\* C4: an open check never has a counter of 10 or more; a record is returned
\* exactly in the update that takes the counter of its check from 9 to 10, and
\* that update returns it once and removes the check; a check whose counter
\* reaches 10 without evidence, unless a fresh check took its place, commits.
C4_CommitsOnceAtDelay ==
    [][/\ \A i \in 1..Len(pending_violations') :
             pending_violations'[i].delay_counter < VIOLATION_DELAY_FRAMES
       /\ \A i \in 1..Len(new_violations') :
             LET id == new_violations'[i].hand_id
             IN  /\ id \in PendingIds(pending_violations)
                 /\ PendingOf(pending_violations, id).delay_counter
                        = VIOLATION_DELAY_FRAMES - 1
                 /\ id \notin PendingIds(pending_violations')
                 /\ \A j \in 1..Len(new_violations') :
                       new_violations'[j].hand_id = id => j = i
       /\ violations' = violations \o new_violations'
       /\ \A id \in PendingIds(pending_violations) :
             LET p == PendingOf(pending_violations, id)
             IN  ( /\ p.delay_counter = VIOLATION_DELAY_FRAMES - 1
                   /\ ~EvidenceIn(scooper_history', p.pizza_box)
                   /\ id \notin PendingIds(pending_violations') )
                 => id \in Committed(new_violations')]_vars

\* C4 witness: the check committed, one record exists, and the hand, seen in
\* the committing frame, is done.
C4_Witness ==
    /\ Len(new_violations) = 1
    /\ Len(violations) = 1
    /\ pending_violations = << >>
    /\ 0 \in matched_hands
    /\ hands[0].state = "done"

\* C6, as claimed: when a matched tracking hand with an open check is near a
\* pizza (the update moves it to waiting), the check is not replaced: opened-at
\* frame, pizza box and region name stay and the counter goes on by one.
C6_OpenCheckNotReplaced ==
    [][\A id \in PendingIds(pending_violations) \cap PendingIds(pending_violations') :
          ( /\ id \in DOMAIN hands
            /\ hands[id].state = "tracking_to_pizza"
            /\ id \in matched_hands'
            /\ hands'[id].state = "waiting_at_pizza" )
          => PendingOf(pending_violations', id)
                 = [PendingOf(pending_violations, id) EXCEPT !.delay_counter = @ + 1]]_vars

\* C10: a tracker that has seen no frame counts 0, and every update adds to the count exactly
\* the number of records it returns, so the count never decreases and equals
\* the number of records returned so far.
C10_CountIsCumulative ==
    [][/\ frame_msg.frame_number = -1 => get_violation_count(violations) = 0
       /\ get_violation_count(violations')
             = get_violation_count(violations) + Len(new_violations')
       /\ get_violation_count(violations') >= get_violation_count(violations)]_vars

\* C10 witness: after an update that returned a record the count is 1.
C10_Witness ==
    /\ get_violation_count(violations) = 1
    /\ Len(new_violations) = 1

\* C5, as claimed: a record is returned only for a hand that was matched again
\* after the frame in which its check was opened (with consecutive frames the
\* frame of its last match is the current frame number less its
\* frames_since_update); and an evicted hand takes its check with it and gets
\* no record in the evicting update.
C5_LostHandNotPenalized ==
    [][/\ \A i \in 1..Len(new_violations') :
             LET v == new_violations'[i]
                 id == v.hand_id
             IN  (id \in PendingIds(pending_violations) /\ id \in DOMAIN hands')
                 => v.frame - hands'[id].frames_since_update
                        > PendingOf(pending_violations, id).frame
       /\ \A id \in lost_hands' :
             /\ id \notin PendingIds(pending_violations')
             /\ id \notin Committed(new_violations')]_vars

\* C7, as claimed: a hand in waiting_at_pizza that an update does not match,
\* short of 120 unmatched frames, stays tracked, and its check stays open
\* unless the history holds a scooper near (0.4) the pizza box of the check.
C7_AwaitingHandKeepsCheck ==
    [][\A id \in DOMAIN hands :
          ( /\ hands[id].state = "waiting_at_pizza"
            /\ id \notin matched_hands'
            /\ hands[id].frames_since_update < 2 * HAND_TIMEOUT_FRAMES )
          => /\ id \in DOMAIN hands'
             /\ \/ id \in PendingIds(pending_violations')
                \/ /\ id \in PendingIds(pending_violations)
                   /\ EvidenceIn(scooper_history',
                                 PendingOf(pending_violations, id).pizza_box)]_vars

\* the timeout the claim gives each state
ClaimedTimeout(state) ==
    IF state \in {"in_roi", "done"} THEN HAND_TIMEOUT_FRAMES
    ELSE 2 * HAND_TIMEOUT_FRAMES

\* C8: an update evicts a hand exactly when it does not match it and the
\* hand's frames_since_update, counted up by this update, exceeds 60 in states
\* in_roi and done, 120 in states tracking_to_pizza and waiting_at_pizza; an
\* in_roi hand goes in the update that takes the counter from 60 to 61, a live
\* in_roi hand never has a counter above 60, and the evicting update returns
\* no record for the hand.
C8_EvictedExactlyPastTimeout ==
    [][/\ \A id \in DOMAIN hands :
             id \notin DOMAIN hands'
             <=> /\ id \notin matched_hands'
                 /\ hands[id].frames_since_update + 1
                        > ClaimedTimeout(hands[id].state)
       /\ \A id \in DOMAIN hands \ DOMAIN hands' :
             /\ id \notin Committed(new_violations')
             /\ hands[id].state = "in_roi"
                    => hands[id].frames_since_update = HAND_TIMEOUT_FRAMES
       /\ \A id \in DOMAIN hands' :
             hands'[id].state = "in_roi"
                 => hands'[id].frames_since_update <= HAND_TIMEOUT_FRAMES
       /\ lost_hands' = DOMAIN hands \ DOMAIN hands']_vars

\* C8 witness: a hand that never left the region (no scooper was seen and no
\* record exists, so it was never done) has just been evicted, at the 60-frame
\* timeout.
C8_Witness ==
    /\ lost_hands = {0}
    /\ hands = << >>
    /\ violations = << >>
    /\ scooper_frames = 0
    /\ frame_msg.frame_number <= MaxActiveFrame + HAND_TIMEOUT_FRAMES + 1

\* the step delivers the last message again, and no hand is created, evicted
\* or changes state in it
ReplayWithoutStateChange ==
    /\ redelivered' = redelivered + 1
    /\ DOMAIN hands' = DOMAIN hands
    /\ \A id \in DOMAIN hands : hands'[id].state = hands[id].state

\* C9, as claimed: such a replay returns no record and changes nothing but
\* the frames_since_update of the hands it does not match.
C9_ReplayMutatesNothing ==
    [][ReplayWithoutStateChange =>
          /\ new_violations' = << >>
          /\ violations' = violations
          /\ next_id' = next_id
          /\ pending_violations' = pending_violations
          /\ scooper_history' = scooper_history
          /\ \A id \in DOMAIN hands :
                hands'[id] = IF id \in matched_hands' THEN hands[id]
                             ELSE [hands[id] EXCEPT !.frames_since_update = @ + 1]]_vars

\* C9, amended: such a replay returns no record and leaves the violation list,
\* the next id and the opened-at frame, pizza box and region name of every open
\* check as they were; it does append the scooper boxes to the history again
\* (dropping the oldest entry beyond 15), advance the counter of every open
\* check by one, and set frames_since_update to 0 for the hands it matches and
\* one up for the others.
C9_ReplayAdvancesCounters ==
    [][ReplayWithoutStateChange =>
          /\ new_violations' = << >>
          /\ violations' = violations
          /\ next_id' = next_id
          /\ Len(pending_violations') = Len(pending_violations)
          /\ \A i \in 1..Len(pending_violations) :
                pending_violations'[i]
                    = [pending_violations[i] EXCEPT !.delay_counter = @ + 1]
          /\ scooper_history'
                = IF Len(scooper_history) < SCOOPER_MEMORY_FRAMES
                  THEN Append(scooper_history, frame_msg.scooper_boxes)
                  ELSE Append(Tail(scooper_history), frame_msg.scooper_boxes)
          /\ \A id \in DOMAIN hands :
                hands'[id].frames_since_update
                    = IF id \in matched_hands' THEN 0
                      ELSE hands[id].frames_since_update + 1]_vars

\* C9 witness: frame 2 opened a check and was delivered again: the counter of
\* the check stands at 2 while the last message is still frame 2.
C9_Witness ==
    /\ redelivered = 1
    /\ frame_msg.frame_number = 2
    /\ Len(pending_violations) = 1
    /\ pending_violations[1].frame = 2
    /\ pending_violations[1].delay_counter = 2

\* C11: hand ids are handed out in strictly increasing order: the hands an
\* update creates get the ids next_id, next_id + 1, ... of the moment, every
\* id ever given out (of a live or an evicted hand) is below next_id, and
\* next_id never goes down, so no id is given twice, evicted or not.
C11_IdsNeverReused ==
    [][/\ DOMAIN hands \subseteq 0..(next_id - 1)
       /\ next_id' >= next_id
       /\ DOMAIN hands' \ DOMAIN hands = next_id..(next_id' - 1)
       /\ DOMAIN hands \ DOMAIN hands' = lost_hands'
       /\ DOMAIN hands' \subseteq 0..(next_id' - 1)]_vars

\* hand 0 was evicted long ago; two hands appear in one frame and get 1 and 2
C11_Witness ==
    /\ frame_msg.frame_number = MaxLostFrame + 1
    /\ frame_msg.hand_boxes = <<HandInRoi, Hand2InRoi>>
    /\ DOMAIN hands = {1, 2}
    /\ hands[1].box = HandInRoi
    /\ hands[2].box = Hand2InRoi
    /\ next_id = 3

\* the regions, by their place in the list, that contain the centre of box
RegionsAround(box) ==
    { k \in 1..Len(rois) :
        LET cx == (box[1] + box[3]) \div 2
            cy == (box[2] + box[4]) \div 2
        IN  /\ rois[k].x <= cx /\ cx <= rois[k].x + rois[k].w
            /\ rois[k].y <= cy /\ cy <= rois[k].y + rois[k].h }

\* the boxes of the frame just processed that no hand took in the matching
UnmatchedBoxes ==
    { i \in 1..Len(frame_msg.hand_boxes) :
        \A h \in matched_hands : hands[h].box # frame_msg.hand_boxes[i] }

\* the hands the step created
Created == DOMAIN hands' \ DOMAIN hands

\* C12: every hand an update creates carries an unmatched box of the frame
\* whose centre lies in a region, is in state in_roi and has the name of the
\* first region around that centre; one hand is created per such box; and a
\* frame whose boxes are all unmatched and outside every region leaves the
\* tracker as a frame without hand boxes would.
C12_CreatedOnlyInsideRegion ==
    [][/\ \A id \in Created :
             \E i \in UnmatchedBoxes' :
                 LET box == frame_msg'.hand_boxes[i]
                 IN  /\ hands'[id].box = box
                     /\ RegionsAround(box) # {}
                     /\ hands'[id].state = "in_roi"
                     /\ \E k \in RegionsAround(box) :
                           /\ \A o \in RegionsAround(box) : k <= o
                           /\ hands'[id].roi_name = rois[k].name
       /\ Cardinality(Created) =
              Cardinality({ i \in UnmatchedBoxes' :
                              RegionsAround(frame_msg'.hand_boxes[i]) # {} })
       /\ ( /\ matched_hands' = {}
            /\ \A i \in 1..Len(frame_msg'.hand_boxes) :
                  RegionsAround(frame_msg'.hand_boxes[i]) = {} )
          => \E r \in { update(Tracker, << >>, frame_msg'.scooper_boxes,
                               frame_msg'.pizza_boxes, frame_msg'.frame_number) } :
                /\ hands' = r.hands
                /\ next_id' = r.next_id
                /\ pending_violations' = r.pending_violations
                /\ violations' = r.violations
                /\ scooper_history' = r.scooper_history
                /\ new_violations' = r.new_violations]_vars

\* of two boxes that match no hand, the one in both regions becomes hand 0
\* of region "Cheese", the one at the pizza is dropped
C12_Witness ==
    /\ frame_msg.frame_number = 0
    /\ frame_msg.hand_boxes = <<HandInRoi, Hand2AtPizza>>
    /\ DOMAIN hands = {0}
    /\ hands[0] = [box |-> HandInRoi, state |-> "in_roi",
                   frames_since_update |-> 1, roi_name |-> "Cheese"]
    /\ next_id = 1

\* the overlap of the boxes a and b is more than 0.2 of their union
OverlapsEnough(a, b) ==
    LET w == Min(a[3], b[3]) - Max(a[1], b[1])
        h == Min(a[4], b[4]) - Max(a[2], b[2])
        inter == IF w > 0 /\ h > 0 THEN w * h ELSE 0
        union == (a[3] - a[1]) * (a[4] - a[2]) + (b[3] - b[1]) * (b[4] - b[2]) - inter
    IN  union > 0 /\ 5 * inter > union

\* the assignments of the boxes to the hands (-1: to none) in which each box,
\* in the order of the list, has the earliest-created hand that overlaps it
\* enough and that no earlier box has
FirstFit(hs, boxes) ==
    { f \in [1..Len(boxes) -> DOMAIN hs \cup {-1}] :
        \A i \in 1..Len(boxes) :
            LET fit == { h \in DOMAIN hs :
                           /\ OverlapsEnough(boxes[i], hs[h].box)
                           /\ \A j \in 1..(i - 1) : f[j] # h }
            IN  IF fit = {} THEN f[i] = -1
                ELSE f[i] \in fit /\ \A o \in fit : f[i] <= o }

\* C13: the update matches the boxes by first fit in creation order: no hand
\* gets two boxes, the matched hands are the hands of the first-fit
\* assignment and carry the box assigned to them, and the boxes assigned to
\* no hand are the unmatched ones.
C13_GreedyFirstFit ==
    [][\E f \in FirstFit(hands, frame_msg'.hand_boxes) :
          /\ \A i, j \in DOMAIN f : (i # j /\ f[i] # -1) => f[i] # f[j]
          /\ matched_hands' = { f[i] : i \in DOMAIN f } \ {-1}
          /\ \A i \in DOMAIN f :
                f[i] # -1 => /\ f[i] \in DOMAIN hands'
                             /\ hands'[f[i]].box = frame_msg'.hand_boxes[i]
                             /\ hands'[f[i]].frames_since_update = 0
          /\ UnmatchedBoxes' = { i \in DOMAIN f : f[i] = -1 }
          /\ \A h \in (DOMAIN hands \cap DOMAIN hands') \ matched_hands' :
                hands'[h].box = hands[h].box]_vars

\* the only box of the frame lies exactly where hand 1 was last seen, and
\* hand 0, created earlier and overlapping the box by a quarter, takes it
C13_Witness ==
    /\ frame_msg.hand_boxes = <<Hand2InRoi>>
    /\ DOMAIN hands = {0, 1}
    /\ matched_hands = {0}
    /\ hands[0].box = Hand2InRoi
    /\ hands[0].roi_name = "Sauce"
    /\ hands[1].box = Hand2InRoi
    /\ hands[1].frames_since_update = 1

\* the hands after the matching loop of the update of the step, before new
\* hands are added and the open checks are looked at
AfterMatching ==
    MatchHands([hands |-> hands, pending |-> pending_violations,
                matched |-> {}, new_hands |-> << >>],
               frame_msg'.hand_boxes, frame_msg'.pizza_boxes,
               frame_msg'.frame_number).hands

\* C14: a matched hand whose new box has its centre in a region leaves the
\* matching step in state in_roi, whatever its state was, with the name of
\* the first region of the list around the centre.  After the whole update
\* it has that name, and that state unless its check was resolved by the
\* same update (then it is done).
C14_ReentryResetsToInRoi ==
    [][\A h \in matched_hands' :
          LET around == RegionsAround(hands'[h].box)
          IN  around # {} =>
                \E k \in around :
                    /\ \A o \in around : k <= o
                    /\ AfterMatching[h].state = "in_roi"
                    /\ AfterMatching[h].roi_name = rois[k].name
                    /\ hands'[h].roi_name = rois[k].name
                    /\ IF h \in PendingIds(pending_violations) \ PendingIds(pending_violations')
                       THEN hands'[h].state = "done"
                       ELSE hands'[h].state = "in_roi"]_vars

\* hand 0 reached the pizza one frame ago (its check has counted two updates)
\* and is now matched with its centre in both regions: it is in_roi again, in
\* the region listed first
C14_Witness ==
    /\ 0 \in DOMAIN hands
    /\ 0 \in matched_hands
    /\ hands[0] = [box |-> HandInRoi, state |-> "in_roi",
                   frames_since_update |-> 0, roi_name |-> "Cheese"]
    /\ 0 \in PendingIds(pending_violations)
    /\ PendingOf(pending_violations, 0).delay_counter = 2

\* the centre of box lies within some pizza box widened by half its width and
\* height on each side
NearSomePizza(box, pizza_boxes) ==
    \E j \in 1..Len(pizza_boxes) :
        LET pz == pizza_boxes[j]
            cx == (box[1] + box[3]) \div 2
            cy == (box[2] + box[4]) \div 2
            pw == pz[3] - pz[1]
            ph == pz[4] - pz[2]
        IN  /\ 2 * pz[1] - pw <= 2 * cx /\ 2 * cx <= 2 * pz[3] + pw
            /\ 2 * pz[2] - ph <= 2 * cy /\ 2 * cy <= 2 * pz[4] + ph

\* C15: over one update a hand enters tracking_to_pizza only from in_roi,
\* matched with its centre outside every region; waiting_at_pizza only from
\* tracking_to_pizza, matched outside every region and near a pizza; done
\* only when the update resolved an open check of the hand (open before or
\* opened by this update from tracking_to_pizza).  So neither done nor
\* in_roi is followed directly by waiting_at_pizza.
C15_LifecycleOrder ==
    [][\A h \in DOMAIN hands \cap DOMAIN hands' :
          LET old == hands[h].state
              new == hands'[h].state
              outside == h \in matched_hands' /\ RegionsAround(hands'[h].box) = {}
          IN  /\ (new = "tracking_to_pizza" /\ old # new) =>
                     (old = "in_roi" /\ outside)
              /\ (new = "waiting_at_pizza" /\ old # new) =>
                     /\ old = "tracking_to_pizza"
                     /\ outside
                     /\ NearSomePizza(hands'[h].box, frame_msg'.pizza_boxes)
              /\ (new = "done" /\ old # new) =>
                     /\ h \notin PendingIds(pending_violations')
                     /\ \/ h \in PendingIds(pending_violations)
                        \/ /\ old = "tracking_to_pizza"
                           /\ outside
                           /\ NearSomePizza(hands'[h].box, frame_msg'.pizza_boxes)
              /\ new \in {"in_roi", "tracking_to_pizza", "waiting_at_pizza", "done"}]_vars

\* hand 0 went through the states one frame each: in its region at frame 0,
\* out of it at frame 1, at the pizza at frame 2
C15_Witness ==
    /\ frame_msg.frame_number = 2
    /\ DOMAIN hands = {0}
    /\ hands[0].state = "waiting_at_pizza"
    /\ hands[0].box = HandAtPizza
    /\ PendingOf(pending_violations, 0).frame = 2

\* the update of the step opens a check for hand h (again): h is matched in
\* state tracking_to_pizza with its centre outside every region, near a pizza
OpensCheck(h) ==
    /\ h \in DOMAIN hands
    /\ h \in matched_hands'
    /\ hands[h].state = "tracking_to_pizza"
    /\ RegionsAround(hands'[h].box) = {}
    /\ NearSomePizza(hands'[h].box, frame_msg'.pizza_boxes)

\* the places in the list of open checks of those that reach the delay in
\* the update of the step with no scooper near their pizza in the history
DueChecks ==
    { i \in 1..Len(pending_violations) :
        /\ pending_violations[i].delay_counter + 1 >= 10
        /\ ~OpensCheck(pending_violations[i].hand_id)
        /\ ~EvidenceIn(scooper_history', pending_violations[i].pizza_box) }

\* C16: the list an update returns has one record for each check that
\* reaches the delay without evidence in that update, in the order of the
\* checks, with the frame of the update and the hand and region of the check,
\* and nothing else: it is empty when no check is due and longer than one
\* when several are.
C16_AllDueChecksCommitTogether ==
    [][/\ Len(new_violations') = Cardinality(DueChecks)
       /\ \A i \in DueChecks :
             LET k == Cardinality({ j \in DueChecks : j <= i })
             IN  /\ new_violations'[k] =
                        [frame |-> frame_msg'.frame_number,
                         hand_id |-> pending_violations[i].hand_id,
                         roi_name |-> pending_violations[i].roi_name]
                 /\ pending_violations[i].hand_id \notin PendingIds(pending_violations')
       /\ violations' = violations \o new_violations']_vars

\* the checks of both hands were opened at frame 2 and commit at frame 11
C16_Witness ==
    /\ frame_msg.frame_number = 11
    /\ new_violations = << [frame |-> 11, hand_id |-> 0, roi_name |-> "Cheese"],
                           [frame |-> 11, hand_id |-> 1, roi_name |-> "Sauce"] >>
    /\ violations = new_violations
    /\ pending_violations = << >>

\* C17: no two open checks have the same hand id.
C17_OneCheckPerHand ==
    \A i, j \in 1..Len(pending_violations) :
        i # j => pending_violations[i].hand_id # pending_violations[j].hand_id

\* hand 0 is at the pizza for the second time, after going back to its
\* region while its first check was open, or for the first time: either way
\* the check opened at frame 5 is the only one
C17_Witness ==
    /\ frame_msg.frame_number = 5
    /\ Len(pending_violations) = 1
    /\ pending_violations[1].hand_id = 0
    /\ pending_violations[1].frame = 5
    /\ hands[0].state = "waiting_at_pizza"

\* C18: after an update every matched hand has frames_since_update 0, and
\* every other live hand has one more than before, where a hand the update
\* created counts from 0 and so has 1.
C18_FramesSinceUpdate ==
    [][\A h \in DOMAIN hands' :
          IF h \in matched_hands' THEN hands'[h].frames_since_update = 0
          ELSE IF h \in DOMAIN hands
          THEN hands'[h].frames_since_update = hands[h].frames_since_update + 1
          ELSE hands'[h].frames_since_update = 1]_vars

\* one update with a matched hand, a hand that is not seen and a new hand
C18_Witness ==
    /\ frame_msg.hand_boxes = <<HandAtPizza, Hand2InRoi>>
    /\ DOMAIN hands = {0, 1, 2}
    /\ matched_hands = {0}
    /\ hands[0].frames_since_update = 0
    /\ hands[1].frames_since_update = 2
    /\ hands[2].frames_since_update = 1
    /\ next_id = 3

\* C19: with one update per frame from frame 0 on, after the update of frame
\* n - 1 the history has min(n, 15) entries; its last entry is the scooper
\* set of that frame and the entries before it are the previous history in
\* order, less its oldest entry when it was full.
C19_HistoryIsLastFifteen ==
    [][LET old == Len(scooper_history)
           new == Len(scooper_history')
       IN  /\ new = IF frame_msg'.frame_number + 1 < 15
                    THEN frame_msg'.frame_number + 1 ELSE 15
           /\ scooper_history'[new] = frame_msg'.scooper_boxes
           /\ \A k \in 1..(new - 1) :
                 scooper_history'[k] = scooper_history[k + old + 1 - new]]_vars

\* sixteenth update: the scooper seen in frame 0 has left the history
C19_Witness ==
    /\ frame_msg.frame_number = 15
    /\ scooper_frames = 1
    /\ Len(scooper_history) = 15
    /\ \A k \in 1..15 : scooper_history[k] = << >>

C21_SaveFailureIsSkipped ==
    [][/\ save_calls' = new_violations'
       /\ \E kept \in SUBSET (1..Len(new_violations')) :
             /\ Len(stored') = Len(stored) + Cardinality(kept)
             /\ \A k \in 1..Len(stored) : stored'[k] = stored[k]
             /\ \A i \in kept :
                   stored'[Len(stored) + Cardinality({ j \in kept : j <= i })]
                       = new_violations'[i]
       /\ published' = << [frame_number |-> frame_msg'.frame_number,
                           violation_detected |-> new_violations' # << >>,
                           violation_count |-> Len(violations')] >>
       /\ acked' /\ raised' = "none"
       /\ violations' = violations \o new_violations'
       /\ \E r \in { Updated(frame_msg') } :
             /\ hands' = r.hands
             /\ pending_violations' = r.pending_violations
             /\ scooper_history' = r.scooper_history
             /\ next_id' = r.next_id
             /\ violations' = r.violations]_vars

\* the frame after the one in which two records were committed and the save
\* of the first failed: the second is in the table, the count is 2 and the
\* next frame has been processed and published
C21_Witness ==
    /\ frame_msg.frame_number = 12
    /\ violations = << [frame |-> 11, hand_id |-> 0, roi_name |-> "Cheese"],
                       [frame |-> 11, hand_id |-> 1, roi_name |-> "Sauce"] >>
    /\ stored = << [frame |-> 11, hand_id |-> 1, roi_name |-> "Sauce"] >>
    /\ save_calls = << >>
    /\ acked
    /\ published = << [frame_number |-> 12, violation_detected |-> FALSE,
                       violation_count |-> 2] >>

\* C22: a frame that cannot be decoded is dropped before the tracker is
\* called: the hands, the open checks with their delay counters, the scooper
\* history, the next id and the violations are as they were before the
\* message, nothing is saved and no result is published for it.
C22_DroppedFrameChangesNothing ==
    [][ ~decoded' =>
          /\ hands' = hands
          /\ pending_violations' = pending_violations
          /\ scooper_history' = scooper_history
          /\ next_id' = next_id
          /\ violations' = violations
          /\ Len(violations') = Len(violations)
          /\ save_calls' = << >>
          /\ stored' = stored
          /\ published' = << >> ]_vars

\* a dropped frame while a check is open: the check was opened two frames
\* before the dropped one and has been counted once only
C22_Witness ==
    /\ ~decoded
    /\ Len(scooper_history) = frame_msg.frame_number
    /\ \E i \in 1..Len(pending_violations) :
          /\ pending_violations[i].frame = frame_msg.frame_number - 2
          /\ pending_violations[i].delay_counter = 1

\* C23: when a fault occurs inside the tracker update of a frame, the hands,
\* the open checks, the scooper history and the violations are exactly as
\* they were before the call.
C23_FaultKeepsPriorState ==
    [][ raised' = "update" =>
          /\ hands' = hands
          /\ pending_violations' = pending_violations
          /\ scooper_history' = scooper_history
          /\ violations' = violations ]_vars

\* C24: load_rois never raises: with no configuration file at any path it
\* returns exactly one fallback region, and otherwise the ordered region list
\* of the first file found.
C24_StartsWithFallbackOrFirstSource ==
    returned.called =>
        /\ ~returned.raised
        /\ LET found == { i \in 1..3 : args[i].exists }
           IN  IF found = {}
               THEN /\ Len(returned.value) = 1
                    /\ returned.value[1].name = "Cheese"
               ELSE returned.value = args[SetMin(found)].rois

\* the unit cells a box covers; none when its width or height is not positive
Cells(box) == { <<x, y>> : x \in box[1]..(box[3] - 1), y \in box[2]..(box[4] - 1) }

Proper(box) == box[1] < box[3] /\ box[2] < box[4]

SignedArea(box) == (box[3] - box[1]) * (box[4] - box[2])

\* C25: for all integer boxes, degenerate ones included, box_iou divides by
\* a positive number only, its value lies in [0, 1], it is the number of
\* common cells over the number of covered cells for proper boxes, and it is
\* 0 when the boxes share no cell or a box has non-positive area.
C25_OverlapRatio ==
    returned.called =>
        LET a == args[1]
            b == args[2]
            num == returned.value[1]
            den == returned.value[2]
        IN  /\ ~returned.raised
            /\ den > 0
            /\ 0 <= num /\ num <= den
            /\ (Proper(a) /\ Proper(b)) =>
                   num * Cardinality(Cells(a) \cup Cells(b))
                     = Cardinality(Cells(a) \cap Cells(b)) * den
            /\ (\/ Cells(a) \cap Cells(b) = {}
                \/ SignedArea(a) <= 0
                \/ SignedArea(b) <= 0
                \/ ~Proper(a)
                \/ ~Proper(b)) => num = 0

\* two proper boxes that overlap in part, and the ratio 1/3 computed for them
C25_Witness ==
    /\ returned.called
    /\ args = << <<0, 0, 2, 1>>, <<1, 0, 2, 2>> >>
    /\ returned.value = <<1, 3>>

\* a box of negative width whose area cancels the other's: the guarded case
C25_WitnessDegenerate ==
    /\ returned.called
    /\ args = << <<3, 0, 0, 3>>, <<0, 0, 3, 3>> >>
    /\ returned.value = <<0, 1>>

\* C26: every check is cleared or committed within VIOLATION_DELAY_FRAMES
\* updates of being opened: a check that an update leaves open for its hand
\* has grown older by one update, and no open check is older than the delay,
\* so no hand has a check open for more than 10 consecutive updates.
C26_CheckResolvedWithinDelay ==
    [][ /\ \A i \in 1..Len(pending_violations') :
             pending_violations'[i].delay_counter <= VIOLATION_DELAY_FRAMES
        /\ \A id \in PendingIds(pending_violations) \cap PendingIds(pending_violations') :
             PendingOf(pending_violations', id).delay_counter
               = PendingOf(pending_violations, id).delay_counter + 1 ]_vars

\* the hand id has gone back into a region while its check was open: it does
\* so in this update, or it did so earlier and has not reached a pizza since
ReenteredWithCheck(id) ==
    /\ id \in PendingIds(pending_violations)
    /\ id \in DOMAIN hands
    /\ id \in DOMAIN hands'
    /\ \/ hands[id].state \in {"in_roi", "tracking_to_pizza"}
       \/ hands[id].state = "waiting_at_pizza" /\ hands'[id].state = "in_roi"

\* C27: when a hand with an open check goes back into a region, the check
\* keeps its pizza_box, roi_name and frame, and its delay_counter advances by
\* one in every update until arbitration clears or commits it.
C27_ReentryLeavesCheckToArbitration ==
    [][\A id \in DOMAIN hands :
          ReenteredWithCheck(id) =>
             \/ id \notin PendingIds(pending_violations')
             \/ PendingOf(pending_violations', id)
                  = [PendingOf(pending_violations, id) EXCEPT !.delay_counter = @ + 1]]_vars

\* C28: after every update every open check belongs to a live hand: the
\* hands an update removes have no check afterwards, and the hand of an open
\* check has been unmatched for fewer updates than the delay, far from its
\* timeout.
C28_CheckNeverOutlivesHand ==
    /\ PendingIds(pending_violations) \subseteq DOMAIN hands
    /\ lost_hands \cap PendingIds(pending_violations) = {}
    /\ lost_hands \cap DOMAIN hands = {}
    /\ \A i \in 1..Len(pending_violations) :
          /\ pending_violations[i].hand_id \in DOMAIN hands
          /\ hands[pending_violations[i].hand_id].frames_since_update
                < VIOLATION_DELAY_FRAMES

\* a check in its last update before the commit while its hand has not been
\* detected for eight frames and is still tracked
C28_Witness ==
    \E i \in 1..Len(pending_violations) :
        /\ pending_violations[i].delay_counter = VIOLATION_DELAY_FRAMES - 1
        /\ pending_violations[i].hand_id \in DOMAIN hands
        /\ hands[pending_violations[i].hand_id].frames_since_update = 8
        /\ hands[pending_violations[i].hand_id].state = "waiting_at_pizza"

\* C29: after every update, every tracked hand in state waiting_at_pizza has
\* an open check under its id.
C29_WaitingHandHasCheck ==
    \A id \in DOMAIN hands :
        hands[id].state = "waiting_at_pizza" =>
            /\ id \in PendingIds(pending_violations)
            /\ Cardinality({ i \in 1..Len(pending_violations) :
                               pending_violations[i].hand_id = id }) = 1

\* a hand still waiting at the pizza in the last update before its check
\* is committed, next to a hand that arbitration has already set to done
C29_Witness ==
    /\ \E id \in DOMAIN hands :
          /\ hands[id].state = "waiting_at_pizza"
          /\ id \in PendingIds(pending_violations)
          /\ PendingOf(pending_violations, id).delay_counter = VIOLATION_DELAY_FRAMES - 1
    /\ \E id \in DOMAIN hands :
          /\ hands[id].state = "done"
          /\ id \notin PendingIds(pending_violations)

C30_WitnessUnacked ==
    /\ ~acked
    /\ raised = "basic_ack"
    /\ decoded
    /\ Len(published) = 1
    /\ pending_violations # << >>

\* C31: the frame numbers the frame reader publishes are 0, 1, 2, ... with
\* no gap and no duplicate: the counter is the number of messages published,
\* it advances by one with a successful publish and not otherwise, and a
\* frame whose publish fails is dropped, never published later, and takes
\* no number.
C31_PublishedNumbersAreConsecutive ==
    [][ /\ \A i \in 1..Len(frame_queue') : frame_queue'[i].frame_number = i - 1
        /\ frame_number' = Len(frame_queue')
        /\ \A i \in 1..Len(frame_queue') : \A j \in 1..Len(frame_queue') :
              i < j => frame_queue'[i].frame < frame_queue'[j].frame
        /\ \A i \in 1..Len(frame_queue') : frame_queue'[i].frame < frames_read'
        /\ frame_queue' = frame_queue => frame_number' = frame_number
        /\ frame_queue' # frame_queue =>
              /\ frame_number' = frame_number + 1
              /\ frame_queue' = Append(frame_queue,
                                       [frame_number |-> frame_number,
                                        frame |-> frames_read]) ]_vars

\* the second frame of the video was dropped: the third one carries the
\* number 1, and the video has been read to its end
C31_Witness ==
    /\ reader_pc = "finished"
    /\ Len(frame_queue) >= 3
    /\ frame_queue[1] = [frame_number |-> 0, frame |-> 0]
    /\ frame_queue[2] = [frame_number |-> 1, frame |-> 2]
    /\ frames_read > Len(frame_queue) + 1

\* what holds of the attempts and sleeps of a connection loop at any moment
RetryCounts ==
    /\ tried <= max_retries
    /\ max_retries = MaxRetriesOf(args[1])
    /\ sleeps <= tried
    /\ (retry_pc = "returned" /\ connected) =>
          /\ tried = attempt + 1
          /\ sleeps = tried - 1
    /\ (retry_pc = "returned" /\ ~connected) =>
          /\ tried = max_retries
          /\ attempt = max_retries
          /\ sleeps = max_retries - 1

\* C32: a connection loop terminates: it makes at most max_retries attempts
\* (10 in the frame reader, 15 in the detector), returns True at the first
\* attempt that succeeds and attempts nothing after it, returns False after
\* exactly max_retries failed attempts, and sleeps after every failed attempt
\* but the last.
C32_RetryLoopTerminates ==
    /\ []RetryCounts
    /\ [][retry_pc = "returned" => UNCHANGED <<tried, sleeps, connected>>]_vars
    /\ <>(retry_pc = "returned")

\* the detector's loop has given up: fifteen attempts, fourteen sleeps
C32_Witness ==
    /\ retry_pc = "returned"
    /\ ~connected
    /\ args = << "ViolationDetector.connect_postgres" >>
    /\ tried = 15
    /\ sleeps = 14

\* the frame reader's loop connects at its fourth attempt
C32_WitnessConnected ==
    /\ retry_pc = "returned"
    /\ connected
    /\ args = << "FrameReader.connect_rabbitmq" >>
    /\ tried = 4
    /\ sleeps = 3
====
